---- MODULE Spec2Model ----
(***************************************************************************)
(* State machine of the ink! contract CrudContract (src/lib.rs): a        *)
(* one-message-per-account store with update and delete ledgers that only *)
(* the owner may read.  Every #[ink(message)] is one atomic action; the   *)
(* execution environment supplies the caller, the block timestamp and the *)
(* event sink.                                                            *)
(***************************************************************************)
EXTENDS Integers, Sequences, FiniteSets, TLC

\* ------------------------------------------------------------------ bounds

\* The accounts that may call the contract.
Accounts == {"C0", "C1", "C2"}

\* The account that deploys the contract (the caller of the constructor).
Deployer == "C0"

\* Successful mutations (= emitted events) explored after construction.
MaxEvents == 3

\* Largest block timestamp the environment reaches.
MaxTime == 1

\* ------------------------------------------------------- program constants

\* The seed text the constructor stores for the deployer.
init_message == "I created my CRUD contract"

\* Texts a caller may pass to create_message / update_message: the empty text,
\* two texts under the minimum length (5 and 9 units), two valid ones and the
\* seed text itself.
Texts == {"", "short", "123456789", "a valid message", "a different valid message",
          init_message}

\* ------------------------------------------------------------------- state

VARIABLES
    messages,   \* Mapping<AccountId, String>: a function on the accounts holding a record
    senders,    \* Vec<AccountId>
    updates,    \* Vec<UpdateHistory>
    deletions,  \* Vec<DeleteHistory>
    owner,      \* AccountId
    events,     \* the environment's event sink: every event emitted so far, in order
    now,        \* the environment's block timestamp
    call,       \* the last message dispatched: [op, caller, arg]
    ret         \* what that message returned: <<"Ok", value>> or <<"Err", CrudError>>

vars == <<messages, senders, updates, deletions, owner, events, now, call, ret>>

\* ----------------------------------------------------------------- helpers

\* Result<T, CrudError>
Ok(v) == <<"Ok", v>>
Err(e) == <<"Err", e>>

\* The unit value ().
Unit == <<>>

\* The caller recorded for a message that never reads env().caller().
NoCaller == "-"

\* Mapping::contains
contains(m, k) == k \in DOMAIN m

\* Mapping::insert (insert or overwrite)
insert(m, k, v) == [x \in (DOMAIN m) \cup {k} |-> IF x = k THEN v ELSE m[x]]

\* Faulty variant of remove: the entry is kept.
remove_kept(m, k) == m

\* Mapping::remove (no-op when absent)
remove(m, k) == [x \in (DOMAIN m) \ {k} |-> m[x]]

\* Faulty variant of push: the element is put in front.
push_front(v, e) == <<e>> \o v

\* Vec::push
push(v, e) == Append(v, e)

\* Faulty variant of retain_not: the caller's slot is filled with the last
\* element (Vec::swap_remove) instead of closing the gap.
retain_not_swap_remove(s, caller) ==
    LET idx == {i \in 1..Len(s) : s[i] = caller}
    IN  IF idx = {} THEN s
        ELSE LET p == CHOOSE i \in idx : TRUE
             IN  [i \in 1..(Len(s) - 1) |-> IF i = p THEN s[Len(s)] ELSE s[i]]

\* Faulty variant of retain_not: the roster is left as it was.
retain_not_kept(s, caller) == s

\* Vec::retain(|&x| x != caller)
retain_not(s, caller) == SelectSeq(s, LAMBDA x : x # caller)

\* Faulty variant of all_messages: the pairs are collected in reverse order.
all_messages_reversed(s, m) ==
    LET present == SelectSeq(s, LAMBDA x : contains(m, x))
        n == Len(present)
    IN  [i \in 1..n |-> [sender |-> present[n + 1 - i],
                          message |-> m[present[n + 1 - i]]]]

\* senders.iter().filter_map(|sender| messages.get(sender).map(...)).collect()
all_messages(s, m) ==
    LET present == SelectSeq(s, LAMBDA x : contains(m, x))
    IN  [i \in 1..Len(present) |-> [sender |-> present[i], message |-> m[present[i]]]]

\* ------------------------------------------------------------------ actions

\* Faulty variant of new: owner is not the creating caller.
new_owner_not_creator(creator) ==
    /\ messages = insert(<<>>, creator, init_message)
    /\ senders = <<creator>>
    /\ updates = <<>>
    /\ deletions = <<>>
    /\ owner = CHOOSE a \in Accounts : a # creator
    /\ events = <<>>
    /\ call = [op |-> "new", caller |-> creator, arg |-> Unit]
    /\ ret = Ok(Unit)

\* #[ink(constructor)] new(): the state after construction by `creator`.
new(creator) ==
    /\ messages = insert(<<>>, creator, init_message)
    /\ senders = <<creator>>
    /\ updates = <<>>
    /\ deletions = <<>>
    /\ owner = creator
    /\ events = <<>>
    /\ call = [op |-> "new", caller |-> creator, arg |-> Unit]
    /\ ret = Ok(Unit)

Init ==
    /\ now = 0
    /\ new(Deployer)

\* Faulty variant of create_message_result: the length checks come before the
\* existence check.
create_message_result_length_first(caller, message) ==
    IF Len(message) = 0 THEN Err("YourMessageIsEmpty")
    ELSE IF Len(message) < 10 THEN Err("YourMessageIsTooShort")
    ELSE IF contains(messages, caller) THEN Err("YouAlreadyCreatedAMessage")
    ELSE Ok(Unit)

\* The outcome of create_message before any state is written.
create_message_result(caller, message) ==
    IF contains(messages, caller) THEN Err("YouAlreadyCreatedAMessage")
    ELSE IF Len(message) = 0 THEN Err("YourMessageIsEmpty")
    ELSE IF Len(message) < 10 THEN Err("YourMessageIsTooShort")
    ELSE Ok(Unit)

\* Faulty variant of create_message: the roster is extended as soon as the
\* existence check passes, before the length checks.
create_message_early_push(caller, message) ==
    /\ Len(events) < MaxEvents
    /\ call' = [op |-> "create_message", caller |-> caller, arg |-> message]
    /\ ret' = create_message_result(caller, message)
    /\ senders' = IF contains(messages, caller) THEN senders ELSE push(senders, caller)
    /\ IF ret'[1] = "Ok"
       THEN /\ messages' = insert(messages, caller, message)
            /\ events' = Append(events, [event |-> "MessageCreated",
                                         sender |-> caller, message |-> message])
       ELSE UNCHANGED <<messages, events>>
    /\ UNCHANGED <<updates, deletions, owner, now>>

\* Faulty variant of create_message: the text is never written to messages.
create_message_no_store(caller, message) ==
    /\ Len(events) < MaxEvents
    /\ call' = [op |-> "create_message", caller |-> caller, arg |-> message]
    /\ ret' = create_message_result(caller, message)
    /\ IF ret'[1] = "Ok"
       THEN /\ senders' = push(senders, caller)
            /\ events' = Append(events, [event |-> "MessageCreated",
                                         sender |-> caller, message |-> message])
       ELSE UNCHANGED <<senders, events>>
    /\ UNCHANGED <<messages, updates, deletions, owner, now>>

create_message(caller, message) ==
    /\ Len(events) < MaxEvents
    /\ call' = [op |-> "create_message", caller |-> caller, arg |-> message]
    /\ ret' = create_message_result(caller, message)
    /\ IF ret'[1] = "Ok"
       THEN /\ messages' = insert(messages, caller, message)
            /\ senders' = push(senders, caller)
            /\ events' = Append(events, [event |-> "MessageCreated",
                                         sender |-> caller, message |-> message])
       ELSE UNCHANGED <<messages, senders, events>>
    /\ UNCHANGED <<updates, deletions, owner, now>>

\* messages.get(&sender).ok_or(CrudError::SenderNotFound)
read_message_from_result(sender) ==
    IF contains(messages, sender) THEN Ok(messages[sender]) ELSE Err("SenderNotFound")

\* Faulty variant of read_message_from: the entry is taken out of the mapping
\* (Mapping::take) instead of being read.
read_message_from_take(sender) ==
    /\ call' = [op |-> "read_message_from", caller |-> NoCaller, arg |-> sender]
    /\ ret' = read_message_from_result(sender)
    /\ messages' = remove(messages, sender)
    /\ UNCHANGED <<senders, updates, deletions, owner, events, now>>

read_message_from(sender) ==
    /\ call' = [op |-> "read_message_from", caller |-> NoCaller, arg |-> sender]
    /\ ret' = read_message_from_result(sender)
    /\ UNCHANGED <<messages, senders, updates, deletions, owner, events, now>>

\* The value read_all_messages returns.
read_all_messages_result ==
    IF senders = <<>> THEN Err("NoMessageYet")
    ELSE Ok(all_messages(senders, messages))

read_all_messages ==
    /\ call' = [op |-> "read_all_messages", caller |-> NoCaller, arg |-> Unit]
    /\ ret' = read_all_messages_result
    /\ UNCHANGED <<messages, senders, updates, deletions, owner, events, now>>

\* Faulty variant of update_message_result: the length checks come before the
\* lookup of the caller's record.
update_message_result_length_first(caller, new_message) ==
    IF Len(new_message) = 0 THEN Err("YourMessageIsEmpty")
    ELSE IF Len(new_message) < 10 THEN Err("YourMessageIsTooShort")
    ELSE IF ~contains(messages, caller) THEN Err("SenderNotFound")
    ELSE IF messages[caller] = new_message THEN Err("YourMessageIsTheSameAsBefore")
    ELSE Ok(Unit)

\* Faulty variant of update_message_result: the minimum length is off by one.
update_message_result_min_9(caller, new_message) ==
    IF ~contains(messages, caller) THEN Err("SenderNotFound")
    ELSE IF Len(new_message) = 0 THEN Err("YourMessageIsEmpty")
    ELSE IF Len(new_message) < 9 THEN Err("YourMessageIsTooShort")
    ELSE IF messages[caller] = new_message THEN Err("YourMessageIsTheSameAsBefore")
    ELSE Ok(Unit)

\* Faulty variant of update_message_result: the comparison with the stored
\* text is missing.
update_message_result_no_same_check(caller, new_message) ==
    IF ~contains(messages, caller) THEN Err("SenderNotFound")
    ELSE IF Len(new_message) = 0 THEN Err("YourMessageIsEmpty")
    ELSE IF Len(new_message) < 10 THEN Err("YourMessageIsTooShort")
    ELSE Ok(Unit)

\* The outcome of update_message before any state is written.
update_message_result(caller, new_message) ==
    IF ~contains(messages, caller) THEN Err("SenderNotFound")
    ELSE IF Len(new_message) = 0 THEN Err("YourMessageIsEmpty")
    ELSE IF Len(new_message) < 10 THEN Err("YourMessageIsTooShort")
    ELSE IF messages[caller] = new_message THEN Err("YourMessageIsTheSameAsBefore")
    ELSE Ok(Unit)

\* Faulty variant of update_message: the ledger entry and the event are
\* written but the store is not.
update_message_no_store(caller, new_message) ==
    /\ Len(events) < MaxEvents
    /\ call' = [op |-> "update_message", caller |-> caller, arg |-> new_message]
    /\ ret' = update_message_result(caller, new_message)
    /\ IF ret'[1] = "Ok"
       THEN /\ updates' = push(updates, [sender |-> caller,
                                           old_message |-> messages[caller],
                                           new_message |-> new_message,
                                           timestamp |-> now])
            /\ events' = Append(events, [event |-> "MessageUpdated",
                                         sender |-> caller, new_message |-> new_message])
       ELSE UNCHANGED <<updates, events>>
    /\ UNCHANGED <<messages, senders, deletions, owner, now>>

\* Faulty variant of update_message: the entry's timestamp is left at zero
\* instead of being read from the clock.
update_message_zero_timestamp(caller, new_message) ==
    /\ Len(events) < MaxEvents
    /\ call' = [op |-> "update_message", caller |-> caller, arg |-> new_message]
    /\ ret' = update_message_result(caller, new_message)
    /\ IF ret'[1] = "Ok"
       THEN /\ updates' = push(updates, [sender |-> caller,
                                           old_message |-> messages[caller],
                                           new_message |-> new_message,
                                           timestamp |-> 0])
            /\ messages' = insert(messages, caller, new_message)
            /\ events' = Append(events, [event |-> "MessageUpdated",
                                         sender |-> caller, new_message |-> new_message])
       ELSE UNCHANGED <<updates, messages, events>>
    /\ UNCHANGED <<senders, deletions, owner, now>>

\* Faulty variant of update_message: the ledger entry is built after the store
\* was written, so old_message is the new text.
update_message_log_after_store(caller, new_message) ==
    /\ Len(events) < MaxEvents
    /\ call' = [op |-> "update_message", caller |-> caller, arg |-> new_message]
    /\ ret' = update_message_result(caller, new_message)
    /\ IF ret'[1] = "Ok"
       THEN /\ messages' = insert(messages, caller, new_message)
            /\ updates' = push(updates, [sender |-> caller,
                                           old_message |-> messages'[caller],
                                           new_message |-> new_message,
                                           timestamp |-> now])
            /\ events' = Append(events, [event |-> "MessageUpdated",
                                         sender |-> caller, new_message |-> new_message])
       ELSE UNCHANGED <<updates, messages, events>>
    /\ UNCHANGED <<senders, deletions, owner, now>>

update_message(caller, new_message) ==
    /\ Len(events) < MaxEvents
    /\ call' = [op |-> "update_message", caller |-> caller, arg |-> new_message]
    /\ ret' = update_message_result(caller, new_message)
    /\ IF ret'[1] = "Ok"
       THEN /\ updates' = push(updates, [sender |-> caller,
                                           old_message |-> messages[caller],
                                           new_message |-> new_message,
                                           timestamp |-> now])
            /\ messages' = insert(messages, caller, new_message)
            /\ events' = Append(events, [event |-> "MessageUpdated",
                                         sender |-> caller, new_message |-> new_message])
       ELSE UNCHANGED <<updates, messages, events>>
    /\ UNCHANGED <<senders, deletions, owner, now>>

\* Faulty variant of delete_message: no MessageDeleted event is emitted.
delete_message_no_event(caller) ==
    /\ Len(events) < MaxEvents
    /\ call' = [op |-> "delete_message", caller |-> caller, arg |-> Unit]
    /\ IF contains(messages, caller)
       THEN /\ ret' = Ok(Unit)
            /\ deletions' = push(deletions, [sender |-> caller,
                                               message |-> messages[caller],
                                               timestamp |-> now])
            /\ messages' = remove(messages, caller)
            /\ senders' = retain_not(senders, caller)
       ELSE /\ ret' = Err("SenderNotFound")
            /\ UNCHANGED <<deletions, messages, senders>>
    /\ UNCHANGED <<updates, owner, now, events>>

delete_message(caller) ==
    /\ Len(events) < MaxEvents
    /\ call' = [op |-> "delete_message", caller |-> caller, arg |-> Unit]
    /\ IF contains(messages, caller)
       THEN /\ ret' = Ok(Unit)
            /\ deletions' = push(deletions, [sender |-> caller,
                                               message |-> messages[caller],
                                               timestamp |-> now])
            /\ messages' = remove(messages, caller)
            /\ senders' = retain_not(senders, caller)
            /\ events' = Append(events, [event |-> "MessageDeleted", sender |-> caller])
       ELSE /\ ret' = Err("SenderNotFound")
            /\ UNCHANGED <<deletions, messages, senders, events>>
    /\ UNCHANGED <<updates, owner, now>>

\* Faulty variant of get_update_history: the owner check is missing.
get_update_history_any_caller(caller) ==
    /\ call' = [op |-> "get_update_history", caller |-> caller, arg |-> Unit]
    /\ ret' = Ok(updates)
    /\ UNCHANGED <<messages, senders, updates, deletions, owner, events, now>>

get_update_history(caller) ==
    /\ call' = [op |-> "get_update_history", caller |-> caller, arg |-> Unit]
    /\ ret' = IF caller # owner THEN Err("OwnerOnly") ELSE Ok(updates)
    /\ UNCHANGED <<messages, senders, updates, deletions, owner, events, now>>

\* Faulty variant of get_delete_history: the owner must also hold a record.
get_delete_history_requires_record(caller) ==
    /\ call' = [op |-> "get_delete_history", caller |-> caller, arg |-> Unit]
    /\ ret' = IF caller # owner THEN Err("OwnerOnly")
              ELSE IF ~contains(messages, caller) THEN Err("SenderNotFound")
              ELSE Ok(deletions)
    /\ UNCHANGED <<messages, senders, updates, deletions, owner, events, now>>

get_delete_history(caller) ==
    /\ call' = [op |-> "get_delete_history", caller |-> caller, arg |-> Unit]
    /\ ret' = IF caller # owner THEN Err("OwnerOnly") ELSE Ok(deletions)
    /\ UNCHANGED <<messages, senders, updates, deletions, owner, events, now>>

\* The environment starts a later block: block_timestamp() never decreases.
block_timestamp ==
    /\ now < MaxTime
    /\ now' = now + 1
    /\ UNCHANGED <<messages, senders, updates, deletions, owner, events, call, ret>>

Next ==
    \/ \E caller \in Accounts, message \in Texts : create_message(caller, message)
    \/ \E sender \in Accounts : read_message_from(sender)
    \/ read_all_messages
    \/ \E caller \in Accounts, new_message \in Texts : update_message(caller, new_message)
    \/ \E caller \in Accounts : delete_message(caller)
    \/ \E caller \in Accounts : get_update_history(caller)
    \/ \E caller \in Accounts : get_delete_history(caller)
    \/ block_timestamp

Spec == Init /\ [][Next]_vars

\* ------------------------------------------------------------------ claims

\* Number of occurrences of x in the sequence s.
Count(x, s) == Cardinality({i \in 1..Len(s) : s[i] = x})

\* The contract state a failed call must leave alone, with the event sink.
contract_state == <<messages, senders, updates, deletions, owner, events>>

\* C1: in every reachable state, an account is a key of messages if and only
\* if it occurs exactly once in senders; an account that is no key of messages
\* occurs zero times in senders.
C1_Bijection ==
    \A id \in Accounts :
        /\ contains(messages, id) <=> Count(id, senders) = 1
        /\ ~contains(messages, id) => Count(id, senders) = 0

\* C1 witness: an account deleted its record and created one again, and
\* another account holds none.
C1_Witness ==
    /\ call.op = "create_message"
    /\ ret = Ok(Unit)
    /\ \E i \in 1..Len(deletions) : deletions[i].sender = call.caller
    /\ \E id \in Accounts : ~contains(messages, id)

\* C2: every step whose call returns an error leaves messages, senders,
\* updates, deletions and owner as they were and emits no event.
C2_ErrorsChangeNothing ==
    [][ret'[1] = "Err" => UNCHANGED contract_state]_vars

\* C2 witness: a call failed in a state whose ledgers and event sink are not
\* empty.
C2_Witness ==
    /\ ret[1] = "Err"
    /\ call.op = "create_message"
    /\ updates # <<>>
    /\ deletions # <<>>

\* C3: when create_message is called by an account that already holds a
\* record, it returns YouAlreadyCreatedAMessage whatever the text (empty and
\* short texts included) and the caller's stored text stays as it was.
C3_CreateTwiceFails ==
    [][\A caller \in Accounts, message \in Texts :
          (contains(messages, caller) /\ create_message(caller, message))
              => /\ ret' = Err("YouAlreadyCreatedAMessage")
                 /\ contains(messages', caller)
                 /\ messages'[caller] = messages[caller]]_vars

\* C3 witness: a holder called create_message with the empty text and got
\* YouAlreadyCreatedAMessage.
C3_Witness ==
    /\ call.op = "create_message"
    /\ call.arg = ""
    /\ contains(messages, call.caller)
    /\ ret = Err("YouAlreadyCreatedAMessage")

\* C4: when an account holding no record calls create_message with a text of
\* length >= 10, the call returns Ok and read_message_from of that account in
\* the state it leaves returns exactly that text.
C4_CreateThenRead ==
    [][\A caller \in Accounts, message \in Texts :
          (~contains(messages, caller) /\ Len(message) >= 10
               /\ create_message(caller, message))
              => /\ ret' = Ok(Unit)
                 /\ read_message_from_result(caller)' = Ok(message)]_vars

\* C4 witness: a create_message succeeded and the caller's record reads back
\* as the text passed.
C4_Witness ==
    /\ call.op = "create_message"
    /\ ret = Ok(Unit)
    /\ Len(call.arg) >= 10
    /\ read_message_from_result(call.caller) = Ok(call.arg)

\* C5: when a holder calls update_message with a text equal to the stored
\* one, the call returns YourMessageIsTheSameAsBefore and updates is left as
\* it was.
C5_SameTextRejected ==
    [][\A caller \in Accounts, new_message \in Texts :
          (contains(messages, caller) /\ messages[caller] = new_message
               /\ update_message(caller, new_message))
              => /\ ret' = Err("YourMessageIsTheSameAsBefore")
                 /\ updates' = updates]_vars

\* C5 witness: a holder passed its stored text to update_message, with an
\* earlier update already in the ledger.
C5_Witness ==
    /\ call.op = "update_message"
    /\ contains(messages, call.caller)
    /\ messages[call.caller] = call.arg
    /\ ret = Err("YourMessageIsTheSameAsBefore")
    /\ Len(updates) >= 1

\* C6: when a holder with text t calls delete_message, the call returns Ok,
\* deletions grows by exactly one entry, at its end, with sender = caller and
\* message = t, and read_message_from of the caller in the state it leaves
\* returns SenderNotFound.
C6_DeleteLogsAndRemoves ==
    [][\A caller \in Accounts :
          (contains(messages, caller) /\ delete_message(caller))
              => /\ ret' = Ok(Unit)
                 /\ Len(deletions') = Len(deletions) + 1
                 /\ SubSeq(deletions', 1, Len(deletions)) = deletions
                 /\ deletions'[Len(deletions')].sender = caller
                 /\ deletions'[Len(deletions')].message = messages[caller]
                 /\ read_message_from_result(caller)' = Err("SenderNotFound")]_vars

\* C6 witness: a delete_message succeeded on a text written by an update, and
\* the caller holds no record any more.
C6_Witness ==
    /\ call.op = "delete_message"
    /\ ret = Ok(Unit)
    /\ deletions # <<>>
    /\ deletions[Len(deletions)].sender = call.caller
    /\ deletions[Len(deletions)].message = "a different valid message"
    /\ ~contains(messages, call.caller)

\* C7: get_update_history and get_delete_history return OwnerOnly to every
\* caller other than owner whatever the ledgers hold; to the owner they return
\* the whole ledger, in its order; either way the contract state is unchanged.
C7_HistoryOwnerOnly ==
    [][\A caller \in Accounts :
          /\ get_update_history(caller)
                => /\ ret' = IF caller = owner THEN Ok(updates) ELSE Err("OwnerOnly")
                   /\ UNCHANGED contract_state
          /\ get_delete_history(caller)
                => /\ ret' = IF caller = owner THEN Ok(deletions) ELSE Err("OwnerOnly")
                   /\ UNCHANGED contract_state]_vars

\* C7 witness: an account other than the owner asked for the update history
\* while both ledgers held entries.
C7_Witness ==
    /\ call.op = "get_update_history"
    /\ call.caller # owner
    /\ ret = Err("OwnerOnly")
    /\ updates # <<>>
    /\ deletions # <<>>

\* a is an initial segment of b.
IsPrefix(a, b) == Len(a) <= Len(b) /\ SubSeq(b, 1, Len(a)) = a

\* The timestamps of ledger l never decrease along it.
NonDecreasing(l) == \A i, j \in 1..Len(l) : i < j => l[i].timestamp <= l[j].timestamp

\* C8: across every step each ledger before the step is an initial segment of
\* the ledger after it, the two ledgers together grow by at most one entry, a
\* new entry sits at the end and carries the timestamp of the call, the clock
\* does not go back, and the timestamps along each ledger never decrease.
C8_LedgersAppendOnly ==
    [][/\ IsPrefix(updates, updates')
       /\ IsPrefix(deletions, deletions')
       /\ (Len(updates') - Len(updates)) + (Len(deletions') - Len(deletions)) <= 1
       /\ Len(updates') > Len(updates) => updates'[Len(updates')].timestamp = now
       /\ Len(deletions') > Len(deletions) => deletions'[Len(deletions')].timestamp = now
       /\ now' >= now
       /\ NonDecreasing(updates')
       /\ NonDecreasing(deletions')]_vars

\* C8 witness: the update ledger holds two entries written in different
\* blocks and the delete ledger holds one.
C8_Witness ==
    /\ Len(updates) = 2
    /\ updates[1].timestamp < updates[2].timestamp
    /\ Len(deletions) = 1

\* C9: in every reachable state every stored text and every new_message of
\* the update ledger has length >= 10; create_message by an account without a
\* record and update_message by a holder return YourMessageIsEmpty for a text
\* of length 0 and YourMessageIsTooShort for a text of length 1 to 9.
C9_MinimumLength ==
    /\ \A id \in DOMAIN messages : Len(messages[id]) >= 10
    /\ \A i \in 1..Len(updates) : Len(updates[i].new_message) >= 10
    /\ \A caller \in Accounts, text \in Texts :
          /\ (~contains(messages, caller) /\ Len(text) = 0)
                => create_message_result(caller, text) = Err("YourMessageIsEmpty")
          /\ (~contains(messages, caller) /\ Len(text) \in 1..9)
                => create_message_result(caller, text) = Err("YourMessageIsTooShort")
          /\ (contains(messages, caller) /\ Len(text) = 0)
                => update_message_result(caller, text) = Err("YourMessageIsEmpty")
          /\ (contains(messages, caller) /\ Len(text) \in 1..9)
                => update_message_result(caller, text) = Err("YourMessageIsTooShort")

\* C9 witness: a holder whose text came from an update passed a text of
\* length 9 to update_message and got YourMessageIsTooShort.
C9_Witness ==
    /\ call.op = "update_message"
    /\ Len(call.arg) = 9
    /\ ret = Err("YourMessageIsTooShort")
    /\ \E i \in 1..Len(updates) :
          /\ updates[i].sender = call.caller
          /\ contains(messages, call.caller)
          /\ messages[call.caller] = updates[i].new_message

\* C10: in every reachable state owner is the account that called new().
C10_OwnerFixed ==
    owner = Deployer

\* C10 witness: the owner deleted its own record and created one again.
C10_Witness ==
    /\ call.op = "create_message"
    /\ call.caller = owner
    /\ ret = Ok(Unit)
    /\ \E i \in 1..Len(deletions) : deletions[i].sender = owner
    /\ senders[Len(senders)] = owner

\* The index in events of account c's last MessageCreated event; 0 when c has
\* none (the deployer's record written by new()).
LastCreate(c) ==
    LET idx == {i \in 1..Len(events) :
                   events[i].event = "MessageCreated" /\ events[i].sender = c}
    IN  IF idx = {} THEN 0 ELSE CHOOSE i \in idx : \A j \in idx : j <= i

\* C11: read_all_messages returns NoMessageYet exactly when senders is empty;
\* otherwise it returns a non-empty sequence with one {sender, message} pair
\* per roster entry, in roster order, each message being that sender's stored
\* text; the roster lists the holders in the order of their most recent
\* successful create (so a delete keeps the relative order of the others).
C11_ReadAll ==
    /\ (read_all_messages_result = Err("NoMessageYet")) <=> (senders = <<>>)
    /\ DOMAIN messages = {} <=> senders = <<>>
    /\ senders # <<>> =>
          /\ read_all_messages_result[1] = "Ok"
          /\ Len(read_all_messages_result[2]) = Len(senders)
          /\ \A i \in 1..Len(senders) :
                /\ contains(messages, senders[i])
                /\ read_all_messages_result[2][i] =
                       [sender |-> senders[i], message |-> messages[senders[i]]]
    /\ \A i, j \in 1..Len(senders) :
          i < j => LastCreate(senders[i]) < LastCreate(senders[j])

\* C11 witness: read_all_messages returned two pairs after the first of three
\* holders deleted its record.
C11_Witness ==
    /\ call.op = "read_all_messages"
    /\ ret[1] = "Ok"
    /\ Len(ret[2]) = 2
    /\ Len(deletions) = 1
    /\ deletions[1].sender = Deployer
    /\ ret[2][1].sender # ret[2][2].sender

\* C12: update_message returns SenderNotFound to a caller without a record
\* whatever the text; to a holder it returns YourMessageIsEmpty for a text of
\* length 0, YourMessageIsTooShort for length 1 to 9, and
\* YourMessageIsTheSameAsBefore exactly for a text of length >= 10 equal to the
\* stored one; delete_message by a caller without a record returns
\* SenderNotFound.
C12_UpdateCheckOrder ==
    [][\A caller \in Accounts :
          /\ \A text \in Texts :
                update_message(caller, text) =>
                    /\ ~contains(messages, caller) => ret' = Err("SenderNotFound")
                    /\ (contains(messages, caller) /\ Len(text) = 0)
                          => ret' = Err("YourMessageIsEmpty")
                    /\ (contains(messages, caller) /\ Len(text) \in 1..9)
                          => ret' = Err("YourMessageIsTooShort")
                    /\ contains(messages, caller) =>
                          ((ret' = Err("YourMessageIsTheSameAsBefore"))
                              <=> (Len(text) >= 10 /\ messages[caller] = text))
          /\ (~contains(messages, caller) /\ delete_message(caller))
                => ret' = Err("SenderNotFound")]_vars

\* C12 witness: an account that deleted its record called update_message with
\* the empty text and got SenderNotFound.
C12_Witness ==
    /\ call.op = "update_message"
    /\ call.arg = ""
    /\ ~contains(messages, call.caller)
    /\ ret = Err("SenderNotFound")
    /\ deletions # <<>>

\* The states of the scenario of C13: after new() by C0 ...
Scenario0 ==
    /\ DOMAIN messages = {"C0"}
    /\ messages["C0"] = "I created my CRUD contract"
    /\ senders = <<"C0">>
    /\ updates = <<>>
    /\ deletions = <<>>

\* ... after create("a valid message") by C1 ...
Scenario1 ==
    /\ DOMAIN messages = {"C0", "C1"}
    /\ messages["C0"] = "I created my CRUD contract"
    /\ messages["C1"] = "a valid message"
    /\ senders = <<"C0", "C1">>
    /\ updates = <<>>
    /\ deletions = <<>>

\* ... after update("a different valid message") by C1 ...
Scenario2 ==
    /\ DOMAIN messages = {"C0", "C1"}
    /\ messages["C0"] = "I created my CRUD contract"
    /\ messages["C1"] = "a different valid message"
    /\ senders = <<"C0", "C1">>
    /\ Len(updates) = 1
    /\ updates[1].sender = "C1"
    /\ updates[1].old_message = "a valid message"
    /\ updates[1].new_message = "a different valid message"
    /\ deletions = <<>>

\* ... and after delete() by C1.
Scenario3 ==
    /\ DOMAIN messages = {"C0"}
    /\ messages["C0"] = "I created my CRUD contract"
    /\ senders = <<"C0">>
    /\ Len(updates) = 1
    /\ updates[1].sender = "C1"
    /\ updates[1].old_message = "a valid message"
    /\ updates[1].new_message = "a different valid message"
    /\ Len(deletions) = 1
    /\ deletions[1].sender = "C1"
    /\ deletions[1].message = "a different valid message"

\* What read_all_messages returns at the end of the scenario.
ScenarioReadAll == Ok(<<[sender |-> "C0", message |-> "I created my CRUD contract"]>>)

\* C13: the scenario is an execution.  Before any successful mutation the
\* state is the one new() by C0 builds; from it create("short") by C1 returns
\* YourMessageIsTooShort and changes nothing; create("a valid message") by C1
\* returns Ok and gives senders = [C0, C1]; then update("a valid message") by
\* C1 returns YourMessageIsTheSameAsBefore and changes nothing;
\* update("a different valid message") by C1 returns Ok and leaves exactly one
\* update entry {C1, "a valid message", "a different valid message"}; delete()
\* by C1 returns Ok, gives senders = [C0] and exactly one delete entry
\* {C1, "a different valid message"}; read_all_messages then returns
\* [{C0, "I created my CRUD contract"}].
C13_Scenario ==
    [][/\ events = <<>> => Scenario0
       /\ (Scenario0 /\ create_message("C1", "short"))
             => (ret' = Err("YourMessageIsTooShort") /\ Scenario0')
       /\ (Scenario0 /\ create_message("C1", "a valid message"))
             => (ret' = Ok(Unit) /\ Scenario1')
       /\ (Scenario1 /\ update_message("C1", "a valid message"))
             => (ret' = Err("YourMessageIsTheSameAsBefore") /\ Scenario1')
       /\ (Scenario1 /\ update_message("C1", "a different valid message"))
             => (ret' = Ok(Unit) /\ Scenario2')
       /\ (Scenario2 /\ delete_message("C1"))
             => (ret' = Ok(Unit) /\ Scenario3')
       /\ (Scenario3 /\ read_all_messages)
             => (ret' = ScenarioReadAll /\ Scenario3')]_vars

\* C13 witness: the state at the end of the scenario, read_all_messages having
\* returned the deployer's pair alone.
C13_Witness ==
    /\ Scenario3
    /\ owner = "C0"
    /\ call.op = "read_all_messages"
    /\ ret = ScenarioReadAll
    /\ Len(events) = 3

\* The largest element of a non-empty set of numbers.
Max(S) == CHOOSE i \in S : \A j \in S : j <= i

\* The index in events of account c's last successful mutation before index
\* k; 0 when there is none.
LastEventBefore(c, k) ==
    LET idx == {i \in 1..(k - 1) : events[i].sender = c}
    IN  IF idx = {} THEN 0 ELSE Max(idx)

\* The index in events of account c's most recent successful mutation.
LastEvent(c) == LastEventBefore(c, Len(events) + 1)

\* The text account c holds just before the mutation at index k of events, as
\* the history of events tells it: <<text>>, or <<>> when c holds none.
TextBefore(c, k) ==
    LET p == LastEventBefore(c, k)
    IN  IF p = 0 THEN (IF c = Deployer THEN <<init_message>> ELSE <<>>)
        ELSE IF events[p].event = "MessageCreated" THEN <<events[p].message>>
        ELSE IF events[p].event = "MessageUpdated" THEN <<events[p].new_message>>
        ELSE <<>>

\* The last entry of ledger l whose sender is c, as <<entry>>; <<>> when there
\* is none.
LastEntry(l, c) ==
    LET idx == {i \in 1..Len(l) : l[i].sender = c}
    IN  IF idx = {} THEN <<>> ELSE <<l[Max(idx)]>>

\* C14: in every reachable state, for every account c: if c's most recent
\* successful mutation was an update, c's stored text is the new_message of
\* the last update entry of c; if it was a delete, c holds no record, is not
\* in senders, and the last delete entry of c carries the text c held just
\* before that delete.
C14_NoPartialState ==
    \A c \in Accounts :
        LET k == LastEvent(c)
        IN  k > 0 =>
              /\ events[k].event = "MessageUpdated" =>
                    /\ contains(messages, c)
                    /\ LastEntry(updates, c) # <<>>
                    /\ messages[c] = LastEntry(updates, c)[1].new_message
              /\ events[k].event = "MessageDeleted" =>
                    /\ ~contains(messages, c)
                    /\ Count(c, senders) = 0
                    /\ LastEntry(deletions, c) # <<>>
                    /\ <<LastEntry(deletions, c)[1].message>> = TextBefore(c, k)

\* C14 witness: one account's most recent mutation is an update and another
\* account's is a delete.
C14_Witness ==
    \E c, d \in Accounts :
        /\ LastEvent(c) > 0
        /\ events[LastEvent(c)].event = "MessageUpdated"
        /\ LastEvent(d) > 0
        /\ events[LastEvent(d)].event = "MessageDeleted"

\* C15: when a holder with text t calls update_message with a text n of
\* length >= 10 other than t, the call returns Ok, updates grows by exactly the
\* entry {caller, t, n, clock value of the call} at its end, the caller's
\* stored text becomes n, and senders, deletions and owner stay as they were.
C15_UpdateEffect ==
    [][\A caller \in Accounts, n \in Texts :
          (contains(messages, caller) /\ Len(n) >= 10 /\ n # messages[caller]
               /\ update_message(caller, n))
              => /\ ret' = Ok(Unit)
                 /\ updates' = updates \o <<[sender |-> caller,
                                              old_message |-> messages[caller],
                                              new_message |-> n,
                                              timestamp |-> now]>>
                 /\ contains(messages', caller)
                 /\ messages'[caller] = n
                 /\ senders' = senders
                 /\ deletions' = deletions
                 /\ owner' = owner]_vars

\* C15 witness: an update succeeded in a block with a non-zero timestamp and
\* its entry, carrying that timestamp, is the last of the ledger.
C15_Witness ==
    /\ call.op = "update_message"
    /\ ret = Ok(Unit)
    /\ now > 0
    /\ updates # <<>>
    /\ updates[Len(updates)].sender = call.caller
    /\ updates[Len(updates)].new_message = call.arg
    /\ updates[Len(updates)].timestamp = now
    /\ messages[call.caller] = call.arg

\* The sequence s without the occurrences of c.
Without(s, c) == SelectSeq(s, LAMBDA x : x # c)

\* The places of d in the sequence s.
Positions(s, d) == {i \in 1..Len(s) : s[i] = d}

\* The step is a message dispatched for caller c, with whatever argument the
\* step records (the two reads never look at their caller, so they count for
\* every c).
CalledBy(c) ==
    \/ call'.op = "create_message" /\ create_message(c, call'.arg)
    \/ call'.op = "update_message" /\ update_message(c, call'.arg)
    \/ call'.op = "delete_message" /\ delete_message(c)
    \/ call'.op = "get_update_history" /\ get_update_history(c)
    \/ call'.op = "get_delete_history" /\ get_delete_history(c)
    \/ call'.op = "read_message_from" /\ read_message_from(call'.arg)
    \/ call'.op = "read_all_messages" /\ read_all_messages

\* The step leaves the record of every account other than c as it was.
OthersRecordsKept(c) ==
    \A d \in Accounts \ {c} :
        /\ contains(messages', d) <=> contains(messages, d)
        /\ contains(messages, d) => messages'[d] = messages[d]

\* Every ledger entry the step appends has sender c.
AppendedBy(c) ==
    /\ \A i \in (Len(updates) + 1)..Len(updates') : updates'[i].sender = c
    /\ \A i \in (Len(deletions) + 1)..Len(deletions') : deletions'[i].sender = c

\* C16 as stated: a message dispatched for caller c never creates, changes or
\* removes the record of another account, never changes the place or the
\* presence in senders of another account, and appends only entries with
\* sender = c.
C16_SingleWriterSamePlace ==
    [][\A c \in Accounts :
          CalledBy(c) =>
              /\ OthersRecordsKept(c)
              /\ \A d \in Accounts \ {c} : Positions(senders', d) = Positions(senders, d)
              /\ AppendedBy(c)]_vars

\* C16 as amended: a message dispatched for caller c never creates, changes
\* or removes the record of another account, never changes the presence in
\* senders of another account nor the order of the other accounts among
\* themselves (a delete by c moves the accounts behind c one place forward),
\* and appends only entries with sender = c.
C16_SingleWriter ==
    [][\A c \in Accounts :
          CalledBy(c) =>
              /\ OthersRecordsKept(c)
              /\ Without(senders', c) = Without(senders, c)
              /\ AppendedBy(c)]_vars

\* C16 witness: the first of three holders deleted its record, so the two
\* others moved forward in senders.
C16_Witness ==
    /\ call.op = "delete_message"
    /\ ret = Ok(Unit)
    /\ call.caller = Deployer
    /\ Len(deletions) = 1
    /\ Len(senders) = 2

\* The events of kind k, in the order they were emitted.
EventsOfKind(k) == SelectSeq(events, LAMBDA e : e.event = k)

\* C17: whatever the caller and the text of a call, a successful
\* create_message emits exactly MessageCreated{caller, text}, a successful update_message exactly MessageUpdated{caller,
\* new_text}, a successful delete_message exactly MessageDeleted{caller}, each
\* at the end of the event sequence; a failed call and every read
\* (read_message_from, read_all_messages, get_update_history,
\* get_delete_history) emit nothing.  Hence the MessageUpdated events match
\* the update ledger and the MessageDeleted events the delete ledger, entry by
\* entry and in order.
C17_EventsMatchMutations ==
    [][LET caller == call'.caller
           text == call'.arg
           updated == EventsOfKind("MessageUpdated")'
           deleted == EventsOfKind("MessageDeleted")'
       IN  /\ (call'.op = "create_message" /\ create_message(caller, text)) =>
                 events' = IF ret'[1] = "Ok"
                           THEN events \o <<[event |-> "MessageCreated",
                                             sender |-> caller, message |-> text]>>
                           ELSE events
           /\ (call'.op = "update_message" /\ update_message(caller, text)) =>
                 events' = IF ret'[1] = "Ok"
                           THEN events \o <<[event |-> "MessageUpdated",
                                             sender |-> caller, new_message |-> text]>>
                           ELSE events
           /\ (call'.op = "delete_message" /\ delete_message(caller)) =>
                 events' = IF ret'[1] = "Ok"
                           THEN events \o <<[event |-> "MessageDeleted",
                                             sender |-> caller]>>
                           ELSE events
           /\ (call'.op = "get_update_history" /\ get_update_history(caller))
                 => events' = events
           /\ (call'.op = "get_delete_history" /\ get_delete_history(caller))
                 => events' = events
           /\ (call'.op = "read_message_from" /\ read_message_from(text))
                 => events' = events
           /\ (call'.op = "read_all_messages" /\ read_all_messages)
                 => events' = events
           /\ Len(updated) = Len(updates')
           /\ \A i \in 1..Len(updates') :
                 /\ updated[i].sender = updates'[i].sender
                 /\ updated[i].new_message = updates'[i].new_message
           /\ Len(deleted) = Len(deletions')
           /\ \A i \in 1..Len(deletions') :
                 deleted[i].sender = deletions'[i].sender]_vars

\* C17 witness: one event of each kind was emitted, in the order create,
\* update, delete, and a failed call after them emitted nothing.
C17_Witness ==
    /\ Len(events) = 3
    /\ events[1].event = "MessageCreated"
    /\ events[2].event = "MessageUpdated"
    /\ events[3].event = "MessageDeleted"
    /\ ret[1] = "Err"
    /\ call.op = "read_message_from"

\* C18: read_message_from(id) and read_all_messages leave messages, senders,
\* both ledgers and owner as they were whether they succeed or fail;
\* read_message_from(id) returns the stored text when id holds a record and
\* SenderNotFound otherwise.
C18_ReadsArePure ==
    [][/\ \A id \in Accounts :
            read_message_from(id) =>
                /\ UNCHANGED <<messages, senders, updates, deletions, owner>>
                /\ contains(messages, id) => ret' = Ok(messages[id])
                /\ ~contains(messages, id) => ret' = Err("SenderNotFound")
       /\ read_all_messages =>
            UNCHANGED <<messages, senders, updates, deletions, owner>>]_vars

\* C18 witness: read_message_from returned the text an update wrote, with
\* entries in both ledgers.
C18_Witness ==
    /\ call.op = "read_message_from"
    /\ ret[1] = "Ok"
    /\ contains(messages, call.arg)
    /\ ret[2] = messages[call.arg]
    /\ \E i \in 1..Len(updates) : updates[i].new_message = ret[2]
    /\ deletions # <<>>

\* The index in events of the k-th MessageUpdated event, which is the event of
\* the k-th entry of updates.
UpdateEventIndex(k) ==
    LET idx == {i \in 1..Len(events) : events[i].event = "MessageUpdated"}
    IN  CHOOSE i \in idx : Cardinality({j \in idx : j <= i}) = k

\* Account c deleted its record between the i-th and the j-th update.
DeletedBetween(c, i, j) ==
    \E e \in (UpdateEventIndex(i) + 1)..(UpdateEventIndex(j) - 1) :
        events[e].event = "MessageDeleted" /\ events[e].sender = c

\* C19: in every reachable state every update entry has old_message #
\* new_message, and two successive update entries of the same account with no
\* delete by that account between them chain: the later old_message is the
\* earlier new_message.
C19_UpdateChain ==
    /\ \A i \in 1..Len(updates) : updates[i].old_message # updates[i].new_message
    /\ \A i, j \in 1..Len(updates) :
          (/\ i < j
           /\ updates[i].sender = updates[j].sender
           /\ \A m \in (i + 1)..(j - 1) : updates[m].sender # updates[i].sender
           /\ ~DeletedBetween(updates[i].sender, i, j))
              => updates[j].old_message = updates[i].new_message

\* C19 witness: an account updated twice in a row, with another account's
\* mutation in between.
C19_Witness ==
    /\ Len(updates) = 2
    /\ Len(events) = 3
    /\ updates[1].sender = updates[2].sender
    /\ events[2].sender # updates[1].sender
    /\ updates[2].old_message = updates[1].new_message

\* C20: ownership does not depend on holding a record.  The owner's
\* delete_message succeeds like any holder's and leaves owner as it was;
\* get_update_history and get_delete_history called by the owner return the
\* ledgers whether or not the owner holds a record; an owner without a record
\* can create one and is then exactly once in senders, at its end; and
\* read_all_messages returns NoMessageYet only when no record is left and at
\* least one delete has happened (so never in the state new() builds).
C20_OwnershipIndependent ==
    [][/\ (contains(messages, owner) /\ delete_message(owner))
             => /\ ret' = Ok(Unit)
                /\ ~contains(messages', owner)
                /\ owner' = owner
       /\ get_update_history(owner) => ret' = Ok(updates)
       /\ get_delete_history(owner) => ret' = Ok(deletions)
       /\ \A text \in Texts :
             (~contains(messages, owner) /\ Len(text) >= 10
                  /\ create_message(owner, text))
                 => /\ ret' = Ok(Unit)
                    /\ senders' # <<>>
                    /\ senders'[Len(senders')] = owner
                    /\ Count(owner, senders') = 1
       /\ read_all_messages_result = Err("NoMessageYet")
             => (DOMAIN messages = {} /\ deletions # <<>>)
       /\ read_all_messages_result' = Err("NoMessageYet")
             => (DOMAIN messages' = {} /\ deletions' # <<>>)]_vars

\* C20 witness: the owner, having deleted its seed record and holding none,
\* was given the delete history.
C20_Witness ==
    /\ call.op = "get_delete_history"
    /\ call.caller = owner
    /\ ~contains(messages, owner)
    /\ ret = Ok(deletions)
    /\ \E i \in 1..Len(deletions) :
          deletions[i].sender = owner /\ deletions[i].message = init_message

====
